---- MODULE Spec2Model ----
(***************************************************************************)
(* Model of the subgraph query endpoint of the indexer service:            *)
(*   packages/indexer-service/src/server/index.ts, createServer,           *)
(*   server.post('/subgraphs/id/:id', bodyParser.raw(...), async handler)  *)
(*                                                                         *)
(* A request is handled in two run-to-completion steps of the JavaScript   *)
(* event loop: the synchronous part of the handler up to its only `await`  *)
(* (action Receive), and the continuation after the query processor's      *)
(* promise settles (actions ProcessorReturns and ProcessorThrows).         *)
(***************************************************************************)
EXTENDS Integers, Sequences, FiniteSets, TLC

VARIABLES
    whitelist,   \* ServerOptions.whitelist, fixed when createServer is called
    req,         \* per request: params.id, ip, the two headers, the body bytes
    pc,          \* per request: position of the async handler
    responses,   \* per request: the HTTP responses sent on res, in order
    calls,       \* per request: the queryProcessor operations invoked, in order
    logs,        \* per request: the logger.info / logger.error events, in order
    consulted,   \* per request: whether whitelist.includes(req.ip) was evaluated
    outcome      \* per request: how the processor's promise settled, if it did

vars == <<whitelist, req, pc, responses, calls, logs, consulted, outcome>>

----------------------------------------------------------------------------
(* Bounds of the model *)

\* number of requests in flight at once in SpecConc
NumReqs == 2
\* longest request body, in bytes
MaxBodyLen == 2

----------------------------------------------------------------------------
(* Program constants *)

PaymentRequiredStatus == 402
DefaultSuccessStatus == 200
DefaultErrorStatus == 500

InvalidPaymentIdMessage == "Invalid X-Graph-Payment-ID provided"
NoPaymentIdMessage == "No X-Graph-Payment-ID provided"
InvalidStateChannelIdMessage == "Invalid X-Graph-State-Channel-ID provided"

----------------------------------------------------------------------------
(* Input domains *)

Reqs == 1 .. NumReqs

Addrs == {"10.0.0.1", "203.0.113.9"}

\* :id path parameters; new SubgraphDeploymentID(id) accepts the first only
SubgraphIds == {"0xd3adb33f", "not-an-id"}

\* A header of req.headers: undefined, one string, or an array of strings
\* (a repeated header).
HeaderUndefined == [type |-> "undefined", value |-> ""]
HeaderString(s) == [type |-> "string", value |-> s]
HeaderArray == [type |-> "object", value |-> ""]

PaymentIds == {"pay-42", "pay-43"}
StateChannelIds == {"sc-1", "sc-2"}

PaymentHeaders == {HeaderUndefined, HeaderArray} \cup {HeaderString(s) : s \in PaymentIds}
StateChannelHeaders ==
    {HeaderUndefined, HeaderArray} \cup {HeaderString(s) : s \in StateChannelIds}

\* Body bytes: 'A', the two bytes of U+00E9 in UTF-8 (0xC3 0xA9), and 0xFF,
\* which occurs in no UTF-8 text.
ByteAlphabet == {65, 195, 169, 255}
Bodies == UNION {[1 .. n -> ByteAlphabet] : n \in 0 .. MaxBodyLen}

Inputs ==
    [id : SubgraphIds, ip : Addrs, paymentId : PaymentHeaders,
     stateChannelID : StateChannelHeaders, body : Bodies]

\* The smaller domain used when several requests are in flight together.
ConcInputs ==
    [id : SubgraphIds, ip : Addrs,
     paymentId : {HeaderUndefined, HeaderString("pay-42")},
     stateChannelID : {HeaderUndefined, HeaderString("sc-1")},
     body : {<<65>>, <<255>>}]

NoReq ==
    [id |-> "", ip |-> "", paymentId |-> HeaderUndefined,
     stateChannelID |-> HeaderUndefined, body |-> <<>>]

\* An optional status field of what the processor returns or throws.
StatusUndefined == [defined |-> FALSE, value |-> 0]
StatusOf(n) == [defined |-> TRUE, value |-> n]
\* 0 is the one number that `status || default` does not keep
ProcessorStatuses == {StatusUndefined, StatusOf(0), StatusOf(201), StatusOf(429)}

Results == {"{data:[]}", "{data:[7]}"}
Messages == {"rate limited", "bad query"}

\* What addPaidQuery / addFreeQuery resolve with: {status?, result}.
Returned == [kind : {"return"}, type : {"object"}, status : ProcessorStatuses, value : Results]
\* What they reject with: an object {status?, message}, a primitive such as a
\* string, or null / undefined.
Thrown ==
    [kind : {"throw"}, type : {"object"}, status : ProcessorStatuses, value : Messages]
    \cup {[kind |-> "throw", type |-> "string", status |-> StatusUndefined, value |-> "boom"],
          [kind |-> "throw", type |-> "null", status |-> StatusUndefined, value |-> ""]}
ConcReturned == {o \in Returned : o.value = "{data:[]}" /\ o.status = StatusUndefined}
ConcThrown == {o \in Thrown : o.type = "object" /\ o.value = "rate limited" /\ o.status = StatusOf(429)}

NoOutcome == [kind |-> "none", type |-> "", status |-> StatusUndefined, value |-> ""]

----------------------------------------------------------------------------
(* Pure helpers of the handler *)

\* Buffer.prototype.toString(): UTF-8 decoding; a byte that starts no
\* well-formed sequence becomes U+FFFD. Strings are sequences of code points.
\* (The alphabet holds no lead byte of a 3- or 4-byte sequence.)
RECURSIVE BufferToString(_)
BufferToString(b) ==
    IF b = <<>> THEN <<>>
    ELSE IF b[1] < 128 THEN <<b[1]>> \o BufferToString(Tail(b))
    ELSE IF /\ b[1] >= 194 /\ b[1] <= 223
            /\ Len(b) >= 2 /\ b[2] >= 128 /\ b[2] <= 191
         THEN <<(b[1] - 192) * 64 + (b[2] - 128)>> \o BufferToString(SubSeq(b, 3, Len(b)))
    ELSE <<65533>> \o BufferToString(Tail(b))

\* new TextEncoder().encode(s): the UTF-8 bytes of a string
EncodeCodePoint(c) ==
    IF c < 128 THEN <<c>>
    ELSE IF c < 2048 THEN <<192 + (c \div 64), 128 + (c % 64)>>
    ELSE <<224 + (c \div 4096), 128 + ((c \div 64) % 64), 128 + (c % 64)>>

RECURSIVE TextEncoderEncode(_)
TextEncoderEncode(s) ==
    IF s = <<>> THEN <<>> ELSE EncodeCodePoint(s[1]) \o TextEncoderEncode(Tail(s))

\* utils.keccak256: a collision-free digest, kept symbolic
keccak256(bytes) == <<"keccak256", bytes>>

\* requestCID: utils.keccak256(new TextEncoder().encode(query))
requestCID(query) == keccak256(TextEncoderEncode(query))

\* new SubgraphDeploymentID(id) throws unless id is a deployment ID
IsDeploymentId(id) == id = "0xd3adb33f"

----------------------------------------------------------------------------
(* Responses, processor calls and log events *)

ErrorBody(message) == [kind |-> "error", value |-> message]
ResultBody(result) == [kind |-> "result", value |-> result]

\* res.status(status).contentType('application/json').send(body)
Response(status, body) ==
    [status |-> status, contentType |-> "application/json", body |-> body]

Info(event) == [level |-> "info", event |-> event]
Error(event) == [level |-> "error", event |-> event]

\* queryProcessor.addPaidQuery({subgraphDeploymentID, paymentId, query, requestCID})
PaidCall(in, query) ==
    [op |-> "addPaidQuery", subgraphDeploymentID |-> in.id, id |-> in.paymentId.value,
     query |-> query, requestCID |-> requestCID(query)]

\* queryProcessor.addFreeQuery({subgraphDeploymentID, stateChannelID, query, requestCID})
FreeCall(in, query) ==
    [op |-> "addFreeQuery", subgraphDeploymentID |-> in.id, id |-> in.stateChannelID.value,
     query |-> query, requestCID |-> requestCID(query)]

----------------------------------------------------------------------------
(* The conditions of the handler *)

\* paymentId !== undefined && typeof paymentId !== 'string'
paymentIdInvalid(paymentId) ==
    paymentId.type # "undefined" /\ paymentId.type # "string"

\* Variant: the decision also looks at the requests suspended on the processor.
paymentRequired_shared(wl, ip) ==
    ~(ip \in wl) \/ (\E r \in Reqs : pc[r] \in {"awaitPaid", "awaitFree"})

\* const paymentRequired = !whitelist.includes(req.ip)
paymentRequired(wl, ip) == ~(ip \in wl)

\* stateChannelID === undefined || typeof stateChannelID !== 'string'
stateChannelIDInvalid(stateChannelID) ==
    stateChannelID.type = "undefined" \/ stateChannelID.type # "string"

\* Variant: status ?? default, which keeps a status of 0.
StatusOr_nullish(status, default) ==
    IF ~status.defined THEN default ELSE status.value

\* status || default: undefined and 0 are both falsy
StatusOr(status, default) ==
    IF ~status.defined \/ status.value = 0 THEN default ELSE status.value

\* e.status of a thrown value that is not null or undefined
ThrownStatus(e) == IF e.type = "object" THEN e.status ELSE StatusUndefined

\* `${e.message}` of a thrown value that is not null or undefined
ThrownMessage(e) == IF e.type = "object" THEN e.value ELSE "undefined"

----------------------------------------------------------------------------
(* The synchronous part of the handler, up to its await *)

\* A validation rejection: logger.info(...); return res.status(402)...send({error})
Reject(lg, event, message, didConsult) ==
    [pc |-> "done",
     responses |-> <<Response(PaymentRequiredStatus, ErrorBody(message))>>,
     calls |-> <<>>,
     logs |-> lg \o <<Info(event)>>,
     consulted |-> didConsult]

\* Variant: the paid branch without its logger.info.
PaidPath_noLog(in, query, lg) ==
    [pc |-> "awaitPaid", responses |-> <<>>, calls |-> <<PaidCall(in, query)>>,
     logs |-> lg, consulted |-> TRUE]

\* logger.info(`Received paid query ...`); await queryProcessor.addPaidQuery(...)
PaidPath(in, query, lg) ==
    [pc |-> "awaitPaid", responses |-> <<>>, calls |-> <<PaidCall(in, query)>>,
     logs |-> lg \o <<Info("received paid query")>>, consulted |-> TRUE]

\* logger.info(`Received free query ...`); the state channel ID check;
\* await queryProcessor.addFreeQuery(...)
FreePath(in, query, lg) ==
    LET lg2 == lg \o <<Info("received free query")>>
    IN  IF stateChannelIDInvalid(in.stateChannelID)
        THEN Reject(lg2, "invalid state channel ID", InvalidStateChannelIdMessage, TRUE)
        ELSE [pc |-> "awaitFree", responses |-> <<>>, calls |-> <<FreeCall(in, query)>>,
              logs |-> lg2, consulted |-> TRUE]

\* if (paymentId !== undefined) { paid } else { free }
Dispatch(in, query, lg) ==
    IF in.paymentId.type # "undefined"
    THEN PaidPath(in, query, lg)
    ELSE FreePath(in, query, lg)

\* The promise of the async handler rejected: nothing catches it, nothing is
\* sent on res. (The runtime reports the unhandled rejection and carries on.)
Unhandled(lg, didConsult) ==
    [pc |-> "unhandled", responses |-> <<>>, calls |-> <<>>, logs |-> lg,
     consulted |-> didConsult]

\* async (req, res) => { ... } from its first line to the await, or to the
\* return or throw that ends it earlier
Handler(wl, in) ==
    LET query == BufferToString(in.body)
    IN  IF ~IsDeploymentId(in.id)
        THEN Unhandled(<<>>, FALSE)
        ELSE IF paymentIdInvalid(in.paymentId)
        THEN Reject(<<>>, "invalid payment ID", InvalidPaymentIdMessage, FALSE)
        ELSE IF paymentRequired(wl, in.ip) /\ in.paymentId.type = "undefined"
        THEN Reject(<<>>, "missing payment ID", NoPaymentIdMessage, TRUE)
        ELSE Dispatch(in, query, <<>>)

----------------------------------------------------------------------------
(* Actions *)

Init ==
    /\ whitelist \in SUBSET Addrs
    /\ req = [r \in Reqs |-> NoReq]
    /\ pc = [r \in Reqs |-> "idle"]
    /\ responses = [r \in Reqs |-> <<>>]
    /\ calls = [r \in Reqs |-> <<>>]
    /\ logs = [r \in Reqs |-> <<>>]
    /\ consulted = [r \in Reqs |-> FALSE]
    /\ outcome = [r \in Reqs |-> NoOutcome]

\* A POST /subgraphs/id/:id arrives and the handler runs to its await.
Receive(r, in) ==
    /\ pc[r] = "idle"
    /\ LET h == Handler(whitelist, in)
       IN  /\ req' = [req EXCEPT ![r] = in]
           /\ pc' = [pc EXCEPT ![r] = h.pc]
           /\ responses' = [responses EXCEPT ![r] = h.responses]
           /\ calls' = [calls EXCEPT ![r] = h.calls]
           /\ logs' = [logs EXCEPT ![r] = h.logs]
           /\ consulted' = [consulted EXCEPT ![r] = h.consulted]
    /\ UNCHANGED <<whitelist, outcome>>

\* The awaited promise resolves with response = {status?, result}.
ProcessorReturns(r, response) ==
    /\ pc[r] \in {"awaitPaid", "awaitFree"}
    /\ responses' = [responses EXCEPT ![r] =
            @ \o <<Response(StatusOr(response.status, DefaultSuccessStatus),
                            ResultBody(response.value))>>]
    /\ pc' = [pc EXCEPT ![r] = "done"]
    /\ outcome' = [outcome EXCEPT ![r] = response]
    /\ UNCHANGED <<whitelist, req, calls, logs, consulted>>

\* The awaited promise rejects with e; the catch block runs. Reading e.status
\* of null or undefined throws inside the catch block.
ProcessorThrows(r, e) ==
    /\ pc[r] \in {"awaitPaid", "awaitFree"}
    /\ logs' = [logs EXCEPT ![r] =
            @ \o <<Error(IF pc[r] = "awaitPaid" THEN "failed paid query"
                         ELSE "failed free query")>>]
    /\ IF e.type = "null"
       THEN /\ pc' = [pc EXCEPT ![r] = "unhandled"]
            /\ UNCHANGED responses
       ELSE /\ pc' = [pc EXCEPT ![r] = "done"]
            /\ responses' = [responses EXCEPT ![r] =
                    @ \o <<Response(StatusOr(ThrownStatus(e), DefaultErrorStatus),
                                    ErrorBody(ThrownMessage(e)))>>]
    /\ outcome' = [outcome EXCEPT ![r] = e]
    /\ UNCHANGED <<whitelist, req, calls, consulted>>

\* One request on its own, over the full input domain.
Next ==
    \/ \E in \in Inputs : Receive(1, in)
    \/ \E response \in Returned : ProcessorReturns(1, response)
    \/ \E e \in Thrown : ProcessorThrows(1, e)

Spec == Init /\ [][Next]_vars

\* Several requests in flight, interleaved at the await.
NextConc ==
    \/ \E r \in Reqs, in \in ConcInputs : Receive(r, in)
    \/ \E r \in Reqs, response \in ConcReturned : ProcessorReturns(r, response)
    \/ \E r \in Reqs, e \in ConcThrown : ProcessorThrows(r, e)

\* createServer was called with one address of the two on the whitelist.
InitConc == Init /\ whitelist = {"10.0.0.1"}

SpecConc == InitConc /\ [][NextConc]_vars

----------------------------------------------------------------------------
(* Vocabulary of the properties *)

Started(r) == pc[r] # "idle"
Settled(r) == pc[r] \in {"done", "unhandled"}
ValidId(r) == req[r].id = "0xd3adb33f"

Rejection(message) ==
    [status |-> 402, contentType |-> "application/json",
     body |-> [kind |-> "error", value |-> message]]

\* The three validation rejections, told from the request alone.
InvalidPaymentCase(r) == req[r].paymentId.type = "object"
MissingPaymentCase(r) ==
    req[r].paymentId.type = "undefined" /\ req[r].ip \notin whitelist
StateChannelCase(r) ==
    /\ req[r].paymentId.type = "undefined"
    /\ req[r].ip \in whitelist
    /\ req[r].stateChannelID.type # "string"
RejectedAtValidation(r) ==
    InvalidPaymentCase(r) \/ MissingPaymentCase(r) \/ StateChannelCase(r)

EventsAt(r, level) ==
    LET AtLevel(e) == e.level = level
        sel == SelectSeq(logs[r], AtLevel)
    IN  [i \in 1 .. Len(sel) |-> sel[i].event]

----------------------------------------------------------------------------
(* C1 *)

\* C1: every request that reaches the handler ends with exactly
\* one HTTP response: never two, and once the handler has ended (returned, or
\* its promise rejected) one has been sent.
C1_ExactlyOneResponse ==
    \A r \in Reqs :
        /\ Len(responses[r]) <= 1
        /\ Settled(r) => Len(responses[r]) = 1

----------------------------------------------------------------------------
(* C2 *)

PaidOnce(r) ==
    /\ Len(calls[r]) = 1
    /\ calls[r][1].op = "addPaidQuery"
    /\ calls[r][1].id = req[r].paymentId.value

FreeOnce(r) ==
    /\ Len(calls[r]) = 1
    /\ calls[r][1].op = "addFreeQuery"
    /\ calls[r][1].id = req[r].stateChannelID.value

PathSelection(r) ==
    /\ req[r].paymentId.type = "string" => PaidOnce(r)
    /\ (/\ req[r].paymentId.type = "undefined"
        /\ req[r].ip \in whitelist
        /\ req[r].stateChannelID.type = "string") => FreeOnce(r)

\* C2: for every handled request, a single-string payment header
\* means addPaidQuery is invoked exactly once with that payment ID and
\* addFreeQuery never, whitelisted or not; no payment header, a whitelisted
\* address and a single-string state channel header mean addFreeQuery exactly
\* once with that state channel ID and addPaidQuery never.
C2_PathSelection ==
    \A r \in Reqs : Started(r) => PathSelection(r)

\* Lemma for C2: the same holds of every handled request whose :id is accepted by
\* new SubgraphDeploymentID(id); a request whose :id is refused invokes
\* neither operation.
C2_PathSelection_ForAcceptedId ==
    \A r \in Reqs :
        Started(r) => IF ValidId(r) THEN PathSelection(r) ELSE calls[r] = <<>>

\* A whitelisted address that offers a payment ID has been dispatched as paid.
C2_Witness ==
    \E r \in Reqs :
        /\ ValidId(r) /\ req[r].ip \in whitelist
        /\ req[r].paymentId = [type |-> "string", value |-> "pay-43"]
        /\ PaidOnce(r)

----------------------------------------------------------------------------
(* C3 *)

InvalidPaymentRejected(r) ==
    /\ responses[r] = <<Rejection("Invalid X-Graph-Payment-ID provided")>>
    /\ ~consulted[r]

\* C3: every handled request whose payment header is present but
\* not a single string is answered 402 {"error":"Invalid X-Graph-Payment-ID
\* provided"}, for every source address and every state channel header, and
\* the whitelist has not been consulted when that is decided.
C3_InvalidPaymentId ==
    \A r \in Reqs : (Started(r) /\ InvalidPaymentCase(r)) => InvalidPaymentRejected(r)

\* Lemma for C3: the same holds of every handled request whose :id is accepted by
\* new SubgraphDeploymentID(id).
C3_InvalidPaymentId_ForAcceptedId ==
    \A r \in Reqs :
        (Started(r) /\ ValidId(r) /\ InvalidPaymentCase(r)) => InvalidPaymentRejected(r)

\* A whitelisted address with a repeated payment header and a good state
\* channel header has been rejected.
C3_Witness ==
    \E r \in Reqs :
        /\ ValidId(r) /\ InvalidPaymentCase(r) /\ req[r].ip \in whitelist
        /\ req[r].stateChannelID.type = "string"
        /\ pc[r] = "done" /\ InvalidPaymentRejected(r)

----------------------------------------------------------------------------
(* C4 *)

NeverMissingPaymentRejection(r) ==
    \A i \in 1 .. Len(responses[r]) :
        responses[r][i].body # [kind |-> "error", value |-> "No X-Graph-Payment-ID provided"]

\* C4: every handled request from an address outside the
\* whitelist with no payment header is answered 402 {"error":"No
\* X-Graph-Payment-ID provided"}, whatever the state channel header; a request
\* from a whitelisted address never gets that answer.
C4_MissingPaymentId ==
    \A r \in Reqs :
        Started(r) =>
            /\ MissingPaymentCase(r) =>
                    responses[r] = <<Rejection("No X-Graph-Payment-ID provided")>>
            /\ req[r].ip \in whitelist => NeverMissingPaymentRejection(r)

\* Lemma for C4: the same holds of every handled request whose :id is accepted by
\* new SubgraphDeploymentID(id).
C4_MissingPaymentId_ForAcceptedId ==
    \A r \in Reqs :
        Started(r) =>
            /\ (ValidId(r) /\ MissingPaymentCase(r)) =>
                    responses[r] = <<Rejection("No X-Graph-Payment-ID provided")>>
            /\ req[r].ip \in whitelist => NeverMissingPaymentRejection(r)

\* A request from outside a non-empty whitelist, with a state channel header
\* but no payment header, has been rejected.
C4_Witness ==
    \E r \in Reqs :
        /\ ValidId(r) /\ MissingPaymentCase(r) /\ whitelist # {}
        /\ req[r].stateChannelID.type = "string"
        /\ responses[r] = <<Rejection("No X-Graph-Payment-ID provided")>>

----------------------------------------------------------------------------
(* C5 *)

NeverStateChannelRejection(r) ==
    \A i \in 1 .. Len(responses[r]) :
        responses[r][i].body #
            [kind |-> "error", value |-> "Invalid X-Graph-State-Channel-ID provided"]

\* C5: every handled request with no payment header from a
\* whitelisted address whose state channel header is absent or not a single
\* string is answered 402 {"error":"Invalid X-Graph-State-Channel-ID
\* provided"}; a request with a single-string payment header never gets that
\* answer, whatever its state channel header.
C5_StateChannelId ==
    \A r \in Reqs :
        Started(r) =>
            /\ StateChannelCase(r) =>
                    responses[r] = <<Rejection("Invalid X-Graph-State-Channel-ID provided")>>
            /\ req[r].paymentId.type = "string" => NeverStateChannelRejection(r)

\* Lemma for C5: the same holds of every handled request whose :id is accepted by
\* new SubgraphDeploymentID(id).
C5_StateChannelId_ForAcceptedId ==
    \A r \in Reqs :
        Started(r) =>
            /\ (ValidId(r) /\ StateChannelCase(r)) =>
                    responses[r] = <<Rejection("Invalid X-Graph-State-Channel-ID provided")>>
            /\ req[r].paymentId.type = "string" => NeverStateChannelRejection(r)

\* A whitelisted address with no payment header and a repeated state channel
\* header has been rejected.
C5_Witness ==
    \E r \in Reqs :
        /\ ValidId(r) /\ StateChannelCase(r) /\ req[r].stateChannelID.type = "object"
        /\ responses[r] = <<Rejection("Invalid X-Graph-State-Channel-ID provided")>>

----------------------------------------------------------------------------
(* C6 *)

\* C6: the requestCID handed to the processor, on either path, is
\* the digest of the request's raw body bytes, and the query handed over
\* denotes those same bytes.
C6_ContentIdentifier ==
    \A r \in Reqs :
        \A i \in 1 .. Len(calls[r]) :
            /\ calls[r][i].requestCID = keccak256(req[r].body)
            /\ TextEncoderEncode(calls[r][i].query) = req[r].body

----------------------------------------------------------------------------
(* C7 *)

SuccessMapped(r, keep) ==
    responses[r] =
        <<[status |-> IF keep THEN outcome[r].status.value ELSE 200,
           contentType |-> "application/json",
           body |-> [kind |-> "result", value |-> outcome[r].value]]>>

FailureMapped(r, keep) ==
    responses[r] =
        <<[status |-> IF keep THEN outcome[r].status.value ELSE 500,
           contentType |-> "application/json",
           body |-> [kind |-> "error", value |-> outcome[r].value]]>>

\* C7: on the paid and the free path alike, a processor return {status?,
\* result} is answered with the supplied status, or 200 if none was supplied,
\* and the result as body; a processor throw {status?, message} with the
\* supplied status, or 500 if none was supplied, and {error: message}; every
\* status the processor supplies is passed through unchanged.
C7_OutcomeMapping_AsClaimed ==
    \A r \in Reqs :
        /\ outcome[r].kind = "return" => SuccessMapped(r, outcome[r].status.defined)
        /\ (outcome[r].kind = "throw" /\ outcome[r].type = "object") =>
                FailureMapped(r, outcome[r].status.defined)

\* C7, amended: the same, with every non-zero status the processor supplies
\* passed through unchanged; a supplied status of 0 is treated as none
\* supplied (200 on a return, 500 on a throw).
C7_OutcomeMapping ==
    \A r \in Reqs :
        LET keep == outcome[r].status.defined /\ outcome[r].status.value # 0
        IN  /\ outcome[r].kind = "return" => SuccessMapped(r, keep)
            /\ (outcome[r].kind = "throw" /\ outcome[r].type = "object") =>
                    FailureMapped(r, keep)

\* A free query whose processor returned with status 0 has been answered 200
\* with the result as body.
C7_Witness ==
    \E r \in Reqs :
        /\ calls[r] # <<>> /\ calls[r][1].op = "addFreeQuery"
        /\ outcome[r] = [kind |-> "return", type |-> "object",
                         status |-> [defined |-> TRUE, value |-> 0],
                         value |-> "{data:[]}"]
        /\ responses[r] = <<[status |-> 200, contentType |-> "application/json",
                             body |-> [kind |-> "result", value |-> "{data:[]}"]]>>

----------------------------------------------------------------------------
(* C8 *)

\* C8: a request invokes at most one processor operation: none when it is
\* rejected at validation, in which case the rejection has been sent by the
\* time the handler first yields, and exactly one otherwise; a call that
\* threw is not issued again.
C8_AtMostOneCall ==
    \A r \in Reqs :
        /\ Len(calls[r]) <= 1
        /\ Started(r) =>
              IF RejectedAtValidation(r)
              THEN calls[r] = <<>> /\ pc[r] = "done" /\ Len(responses[r]) = 1
              ELSE Len(calls[r]) = 1

\* Lemma for C8: the same holds of every handled request whose :id is accepted
\* by new SubgraphDeploymentID(id); a request whose :id is refused invokes no
\* operation.
C8_AtMostOneCall_ForAcceptedId ==
    \A r \in Reqs :
        /\ Len(calls[r]) <= 1
        /\ Started(r) =>
              IF ~ValidId(r) THEN calls[r] = <<>>
              ELSE IF RejectedAtValidation(r)
              THEN calls[r] = <<>> /\ pc[r] = "done" /\ Len(responses[r]) = 1
              ELSE Len(calls[r]) = 1

\* A processor call has thrown and the request is over with that one call.
C8_Witness ==
    \E r \in Reqs :
        /\ ValidId(r) /\ outcome[r].kind = "throw" /\ Settled(r)
        /\ Len(calls[r]) = 1

----------------------------------------------------------------------------
(* C10 *)

\* A request that reached one of the terminal branches: it was rejected at
\* validation or dispatched to the processor.
ReachedBranch(r) == Started(r) /\ ValidId(r)

ErrorEventsAsClaimed(r) ==
    Len(EventsAt(r, "error")) = IF outcome[r].kind = "throw" THEN 1 ELSE 0

\* C10: each terminal branch emits exactly one info-level event (the
\* rejection reason, or "received paid/free query"), the state channel
\* rejection included; a processor failure adds one error-level event and no
\* info-level event.
C10_OneInfoEvent_AsClaimed ==
    \A r \in Reqs :
        ReachedBranch(r) => Len(EventsAt(r, "info")) = 1 /\ ErrorEventsAsClaimed(r)

\* C10, amended: each terminal branch emits exactly one info-level event,
\* except the state channel rejection, which emits two: "received free query"
\* and then the rejection reason; a processor failure adds one error-level
\* event and no info-level event.
C10_InfoEvents ==
    \A r \in Reqs :
        ReachedBranch(r) =>
            /\ EventsAt(r, "info") =
                  IF InvalidPaymentCase(r) THEN <<"invalid payment ID">>
                  ELSE IF MissingPaymentCase(r) THEN <<"missing payment ID">>
                  ELSE IF StateChannelCase(r)
                       THEN <<"received free query", "invalid state channel ID">>
                  ELSE IF req[r].paymentId.type = "string" THEN <<"received paid query">>
                  ELSE <<"received free query">>
            /\ ErrorEventsAsClaimed(r)
            /\ outcome[r].kind = "throw" => logs[r][Len(logs[r])].level = "error"

\* A request has been rejected for its state channel ID, with two info events.
C10_Witness ==
    \E r \in Reqs :
        /\ ValidId(r) /\ StateChannelCase(r) /\ pc[r] = "done"
        /\ responses[r] = <<Rejection("Invalid X-Graph-State-Channel-ID provided")>>
        /\ EventsAt(r, "info") = <<"received free query", "invalid state channel ID">>

----------------------------------------------------------------------------
(* C9 *)

\* Everything the handler has produced for a request.
View(r) == <<pc[r], responses[r], calls[r], logs[r], consulted[r]>>

\* Two handled requests with the same headers, address, :id and body, and the
\* same processor outcome so far, stand at the same point with the same
\* processor call, the same log events and the same response.
SameInputsSameResult ==
    \A r1, r2 \in Reqs :
        (/\ Started(r1) /\ Started(r2)
         /\ req[r1] = req[r2]
         /\ outcome[r1] = outcome[r2]) => View(r1) = View(r2)

\* A step belongs to one request and leaves every other request as it was.
OthersUntouched ==
    \E r \in Reqs :
        \A q \in Reqs \ {r} :
            /\ req'[q] = req[q] /\ outcome'[q] = outcome[q]
            /\ pc'[q] = pc[q] /\ responses'[q] = responses[q]
            /\ calls'[q] = calls[q] /\ logs'[q] = logs[q]
            /\ consulted'[q] = consulted[q]

\* Whatever the other requests are doing, a request that has not arrived can
\* be received and a request suspended on the processor can be resumed.
NeverDelayed ==
    \A r \in Reqs :
        /\ pc[r] = "idle" => \A in \in ConcInputs : ENABLED Receive(r, in)
        /\ pc[r] \in {"awaitPaid", "awaitFree"} =>
              /\ \A response \in ConcReturned : ENABLED ProcessorReturns(r, response)
              /\ \A e \in ConcThrown : ENABLED ProcessorThrows(r, e)

====
